---- MODULE Spec2Model ----
(***************************************************************************)
(* Platform KeyStore loader of GRUB for powerpc-ieee1275                   *)
(* (grub-core/kern/powerpc/ieee1275/platform_keystore.c).                  *)
(*                                                                         *)
(* grub_size_t and grub_uint32_t are 32 bits wide on this target.  TLC     *)
(* integers are 32-bit signed, so an unsigned 32-bit value v is held as    *)
(* the signed integer with the same bit pattern: v itself below 2^31, and  *)
(* v - 2^32 from 2^31 on.  Addition and subtraction of such values are the *)
(* plain integer operations (all operands of the model stay far from the   *)
(* signed limits), and the unsigned comparisons are ULt/ULe/UGt below.     *)
(***************************************************************************)
EXTENDS Integers, Sequences, FiniteSets, TLC

(* ---------------- bounds of the model ---------------- *)
\* number of blocks the heap can hold at once; grub_malloc fails beyond it
HeapCap == 4
\* number of grub_pks_tmp_free calls made by the surrounding program
MaxRelease == 2

(* ---------------- program constants ---------------- *)
NULL == 0
PKS_SBVAR_DB == 1
PKS_SBVAR_DBX == 2
\* sizeof (grub_esl_t): 16-byte type GUID and three 32-bit sizes
SizeofEsl == 28
\* sizeof (grub_esd_t): the 16-byte owner GUID in front of the payload
SizeofEsd == 16
\* the firmware's "not found" result of pks-read-sbvar
IEEE1275_CELL_NOT_FOUND == -7

(* ---------------- unsigned 32-bit comparisons ---------------- *)
ULt(a, b) == IF (a < 0) = (b < 0) THEN a < b ELSE b < 0
ULe(a, b) == a = b \/ ULt(a, b)
UGt(a, b) == ULt(b, a)

(* ---------------- inputs chosen by firmware and allocator ---------------- *)
\* result codes of a firmware call: failure, success
FwResults == {-1, 0}
\* result codes of pks-read-sbvar
SbvarResults == {IEEE1275_CELL_NOT_FOUND, -1, 0}
\* lengths and first bytes the SB_VERSION object read can report
VersionLens == {0, 1, 2}
VersionBytes == {0, 1, 2}
\* value reported by pks-max-object-size: the capacity of every request buffer
MaxObjectSizes == {107}
\* byte counts pks-read-sbvar can report as written: the full range for db,
\* which exercises every path of the unpacker, and a short one for dbx, which
\* goes through the same code
DataSizes == {0, 28, 45, 62, 90, 107}
DenyDataSizes == {0, 28, 45}
SizesOf(type) == IF type = PKS_SBVAR_DB THEN DataSizes ELSE DenyDataSizes
\* values of the three size fields of a list header
ListSizes == {20, 28, 45, 62, 100}
HeaderSizes == {0, 40}
EntrySizes == {0, 8, 16, 17}
Guids == {1, 2}

Errors == {"GRUB_ERR_NONE", "GRUB_ERR_OUT_OF_MEMORY", "GRUB_ERR_BUG",
           "GRUB_ERR_READ_ERROR", "GRUB_ERR_BAD_NUMBER",
           "GRUB_ERR_FILE_NOT_FOUND", "GRUB_ERR_BAD_FIRMWARE"}

VARIABLES
  pc,                  \* position of the boot thread
  pks_use_keystore,    \* static bool pks_use_keystore
  pks_keystore,        \* static grub_pks_t pks_keystore
  pks_max_object_size, \* static grub_size_t pks_max_object_size
  grub_errno,          \* last error recorded by grub_error
  live,                \* heap blocks currently allocated
  arr,                 \* contents of the blocks that hold grub_pks_sd_t arrays
  nextBlk,             \* next fresh block address
  rc,                  \* grub_pks_keystore_init: rc
  present,             \* value returned by is_pks_present
  probed,              \* is_pks_present has returned
  data,                \* is_pks_present: data (version buffer)
  sbvartype,           \* read_sbvar_from_pks: sbvartype
  esl_data,            \* read_sbvar_from_pks: esl_data (request buffer)
  esl_data_size,       \* read_sbvar_from_pks: esl_data_size
  err,                 \* read_sbvar_from_pks: err
  cursor,              \* pks_sd_from_esl: esl_data, as an offset into the buffer
  esl_size,            \* pks_sd_from_esl: esl_size (bytes not yet consumed)
  next_esl,            \* pks_sd_from_esl: next_esl
  signature,           \* _esl_to_esd: signature
  entries,             \* _esl_to_esd: entries
  remaining,           \* _esl_to_esd: esl_size (bytes of the entry span left)
  offset,              \* _esl_to_esd: offset
  signature_size,      \* _esl_to_esd: signature_size
  guid,                \* _esl_to_esd: *guid
  base,                \* _esl_to_esd: esl_data, as an offset into the buffer
  fwlog,               \* firmware calls issued so far, with their results
  db_rc,               \* what the allow-list load returned to grub_pks_keystore_init
  dbx_rc,              \* what the deny-list load returned to grub_pks_keystore_init
  after_db,            \* pks_keystore when the allow-list step finished
  appended,            \* entries completed by _esl_to_esd, per variable, in order
  failAt,              \* the allocation that failed in the current load
  oob,                 \* an entry copy read past the bytes firmware returned
  uaf,                 \* a block was read after it had been freed
  dfree,               \* a block was freed while not allocated
  lastOp,              \* last public operation that returned
  nrelease,            \* grub_pks_tmp_free calls made by the program
  freed,               \* blocks freed by the last grub_pks_tmp_free
  lists,               \* list headers esl_to_esd decoded in the current load, in order
  tmpbufs              \* request buffers allocated so far (version, db, dbx)

ksVars == <<pks_use_keystore, pks_keystore, pks_max_object_size, grub_errno>>
heapVars == <<live, arr, nextBlk>>
probeVars == <<present, probed, data>>
loaderVars == <<sbvartype, esl_data, esl_data_size, err, cursor, esl_size, next_esl>>
parserVars == <<signature, entries, remaining, offset, signature_size, guid, base>>
obsVars == <<fwlog, db_rc, dbx_rc, after_db, appended, failAt, oob, uaf, dfree, lastOp, nrelease, freed>>
logVars == <<lists, tmpbufs>>
vars == <<pc, rc, ksVars, heapVars, probeVars, loaderVars, parserVars, obsVars, logVars>>

(* ---------------- the keystore ---------------- *)
\* static grub_pks_t pks_keystore = { NULL, NULL, 0, 0, false }
EmptyKeystore == [db |-> NULL, dbx |-> NULL, db_entries |-> 0,
                  dbx_entries |-> 0, use_static_keys |-> FALSE]

\* the pair (*pks_sd, *pks_sd_entries) read_sbvar_from_pks was handed
SdPtr(ks, type) == IF type = PKS_SBVAR_DB THEN ks.db ELSE ks.dbx
SdCount(ks, type) == IF type = PKS_SBVAR_DB THEN ks.db_entries ELSE ks.dbx_entries
SetSd(ks, type, p, n) ==
  IF type = PKS_SBVAR_DB
  THEN [ks EXCEPT !.db = p, !.db_entries = n]
  ELSE [ks EXCEPT !.dbx = p, !.dbx_entries = n]

\* the slots of an array block, as far as a count says they are in use
Slots(a, p, n) == IF p = NULL \/ p \notin DOMAIN a THEN << >>
                  ELSE SubSeq(a[p], 1, IF n <= Len(a[p]) THEN n ELSE Len(a[p]))

\* grub_pks_get_keystore: the keystore, or the no-keystore indicator
NoKeystore == "NULL"
grub_pks_get_keystore ==
  IF pks_use_keystore = TRUE THEN "&pks_keystore" ELSE NoKeystore

(* ---------------- the heap ---------------- *)
\* grub_malloc can hand out a block only while the heap has room
HasRoom == Cardinality(live) < HeapCap

\* a slot of a grub_pks_sd_t array; src is the buffer offset its payload was
\* copied from, written tells whether data_size and guid were assigned
Slot(g, d, n, s, w) == [guid |-> g, data |-> d, data_size |-> n, src |-> s, written |-> w]
FreshSlot == Slot(0, NULL, 0, 0, FALSE)

Init ==
  /\ pc = "idle"
  /\ pks_use_keystore = FALSE
  /\ pks_keystore = EmptyKeystore
  /\ pks_max_object_size = 0
  /\ grub_errno = "GRUB_ERR_NONE"
  /\ live = {}
  /\ arr = << >>
  /\ nextBlk = 1
  /\ rc = "GRUB_ERR_NONE"
  /\ present = FALSE
  /\ probed = FALSE
  /\ data = NULL
  /\ sbvartype = 0
  /\ esl_data = NULL
  /\ esl_data_size = 0
  /\ err = "GRUB_ERR_NONE"
  /\ cursor = 0
  /\ esl_size = 0
  /\ next_esl = 0
  /\ signature = NULL
  /\ entries = 0
  /\ remaining = 0
  /\ offset = 0
  /\ signature_size = 0
  /\ guid = 0
  /\ base = 0
  /\ fwlog = << >>
  /\ db_rc = "none"
  /\ dbx_rc = "none"
  /\ after_db = EmptyKeystore
  /\ appended = [t \in {PKS_SBVAR_DB, PKS_SBVAR_DBX} |-> << >>]
  /\ failAt = "none"
  /\ oob = FALSE
  /\ uaf = FALSE
  /\ dfree = FALSE
  /\ lastOp = "none"
  /\ nrelease = 0
  /\ freed = {}
  /\ lists = << >>
  /\ tmpbufs = {}

\* one firmware call and what it returned
FwCall(name, arg, r, len, byte) ==
  [call |-> name, arg |-> arg, rc |-> r, len |-> len, byte |-> byte]

(* ---------------- grub_pks_tmp_free ---------------- *)
\* the pointers grub_pks_tmp_free hands to grub_free (grub_free (NULL) does nothing)
ToFree(ks, a) ==
  ({ Slots(a, ks.db, ks.db_entries)[i].data : i \in 1..Len(Slots(a, ks.db, ks.db_entries)) }
   \cup { Slots(a, ks.dbx, ks.dbx_entries)[i].data : i \in 1..Len(Slots(a, ks.dbx, ks.dbx_entries)) }
   \cup {ks.db, ks.dbx}) \ {NULL}

\* the loops read db[i].data and dbx[i].data out of a block that is not allocated
ReadsFreed(ks, lv) ==
  \/ ks.db_entries > 0 /\ ks.db \notin lv
  \/ ks.dbx_entries > 0 /\ ks.dbx \notin lv

\* grub_memset (&pks_keystore, 0, sizeof (grub_pks_t))
ResetKeystore_Skipped(ks) == ks
ResetKeystore_KeepsFlag(ks) == [EmptyKeystore EXCEPT !.use_static_keys = ks.use_static_keys]
ResetKeystore(ks) == EmptyKeystore

\* the whole of grub_pks_tmp_free, on the keystore and the heap
TmpFreeEffect ==
  /\ freed' = ToFree(pks_keystore, arr) \cap live
  /\ live' = live \ ToFree(pks_keystore, arr)
  /\ dfree' = (dfree \/ ToFree(pks_keystore, arr) \ live # {})
  /\ uaf' = (uaf \/ ReadsFreed(pks_keystore, live))
  /\ pks_keystore' = ResetKeystore(pks_keystore)

\* freeing or reading a block that is not allocated is undefined: the build
\* either carries on over the stale memory or stops in grub_fatal
TmpFreeUndefined ==
  ToFree(pks_keystore, arr) \ live # {} \/ ReadsFreed(pks_keystore, live)

\* void grub_pks_tmp_free (void), called by the surrounding program
GrubPksTmpFree ==
  /\ UNCHANGED logVars
  /\ pc \in {"idle", "done"}
  /\ nrelease < MaxRelease
  /\ TmpFreeEffect
  /\ \E crash \in (IF TmpFreeUndefined THEN BOOLEAN ELSE {FALSE}) :
       pc' = IF crash THEN "fatal" ELSE pc
  /\ nrelease' = nrelease + 1
  /\ lastOp' = "free"
  /\ UNCHANGED <<rc, pks_use_keystore, pks_max_object_size, grub_errno, arr, nextBlk,
                 probeVars, loaderVars, parserVars,
                 fwlog, db_rc, dbx_rc, after_db, appended, failAt, oob>>

(* ---------------- is_pks_present ---------------- *)
\* grub_pks_keystore_init returns to its caller
InitReturns == pc' = "done" /\ lastOp' = "init"

\* grub_pks_keystore_init is entered and calls is_pks_present
GrubPksKeystoreInit ==
  /\ UNCHANGED logVars
  /\ pc = "idle"
  /\ lastOp \in {"none", "free"}
  /\ ~probed
  /\ pc' = "probe_test"
  /\ UNCHANGED <<rc, ksVars, heapVars, probeVars, loaderVars, parserVars, obsVars>>

\* rc = grub_ieee1275_test (PKS_MAX_OBJ_SIZE)
ProbeTest ==
  /\ UNCHANGED logVars
  /\ pc = "probe_test"
  /\ \E r \in FwResults :
       /\ fwlog' = Append(fwlog, FwCall("test", 0, r, 0, 0))
       /\ IF r < 0
          THEN /\ grub_errno' = "GRUB_ERR_BAD_FIRMWARE"
               /\ present' = FALSE /\ probed' = TRUE
               /\ InitReturns
          ELSE /\ pc' = "probe_maxsize"
               /\ UNCHANGED <<grub_errno, present, probed, lastOp>>
  /\ UNCHANGED <<rc, pks_use_keystore, pks_keystore, pks_max_object_size, heapVars, data,
                 loaderVars, parserVars,
                 db_rc, dbx_rc, after_db, appended, failAt, oob, uaf, dfree, nrelease, freed>>

\* rc = grub_ieee1275_pks_max_object_size (&pks_max_object_size)
ProbeMaxObjectSize ==
  /\ UNCHANGED logVars
  /\ pc = "probe_maxsize"
  /\ \E r \in FwResults, size \in MaxObjectSizes :
       /\ fwlog' = Append(fwlog, FwCall("max_object_size", 0, r, size, 0))
       /\ IF r < 0
          THEN /\ grub_errno' = "GRUB_ERR_BAD_NUMBER"
               /\ present' = FALSE /\ probed' = TRUE
               /\ InitReturns
               /\ UNCHANGED pks_max_object_size
          ELSE /\ pks_max_object_size' = size
               /\ pc' = "version_alloc"
               /\ UNCHANGED <<grub_errno, present, probed, lastOp>>
  /\ UNCHANGED <<rc, pks_use_keystore, pks_keystore, heapVars, data,
                 loaderVars, parserVars,
                 db_rc, dbx_rc, after_db, appended, failAt, oob, uaf, dfree, nrelease, freed>>

\* read_sbversion_from_pks: *out = grub_malloc (pks_max_object_size)
ReadSbversionAlloc ==
  /\ UNCHANGED lists
  /\ pc = "version_alloc"
  /\ \E ok \in (IF HasRoom THEN BOOLEAN ELSE {FALSE}) :
       IF ok
       THEN /\ data' = nextBlk
            /\ tmpbufs' = tmpbufs \cup {nextBlk}
            /\ live' = live \cup {nextBlk}
            /\ nextBlk' = nextBlk + 1
            /\ pc' = "version_read"
            /\ UNCHANGED <<grub_errno, present, probed, lastOp>>
       ELSE \* is_pks_present: grub_free (data) of NULL, return false
            /\ grub_errno' = "GRUB_ERR_OUT_OF_MEMORY"
            /\ present' = FALSE /\ probed' = TRUE
            /\ InitReturns
            /\ UNCHANGED <<data, live, nextBlk, tmpbufs>>
  /\ UNCHANGED <<rc, pks_use_keystore, pks_keystore, pks_max_object_size, arr,
                 loaderVars, parserVars,
                 fwlog, db_rc, dbx_rc, after_db, appended, failAt, oob, uaf, dfree,
                 nrelease, freed>>

\* read_sbversion_from_pks: outlen != 1 || (**out >= 2) is the malformed version
VersionMalformed_AnyLength(outlen, byte) == byte >= 2
VersionMalformed(outlen, byte) == outlen # 1 \/ byte >= 2

\* is_pks_present: ret = ((*data == 1) ? true : false)
IsDynamic_NonZero(byte) == byte # 0
IsDynamic_Always(byte) == TRUE
IsDynamic(byte) == byte = 1

\* read_sbversion_from_pks reads SB_VERSION; is_pks_present frees the buffer
\* and returns
ReadSbversion ==
  /\ UNCHANGED logVars
  /\ pc = "version_read"
  /\ \E r \in FwResults, outlen \in VersionLens, byte \in VersionBytes :
       /\ fwlog' = Append(fwlog, FwCall("read_object", 0, r, outlen, byte))
       /\ grub_errno' = IF r < 0 THEN "GRUB_ERR_READ_ERROR"
                         ELSE IF VersionMalformed(outlen, byte) THEN "GRUB_ERR_BAD_NUMBER"
                         ELSE grub_errno
       /\ present' = (r >= 0 /\ ~VersionMalformed(outlen, byte) /\ IsDynamic(byte))
       /\ probed' = TRUE
       /\ live' = live \ {data}
       /\ data' = NULL
       /\ IF present'
          THEN /\ pc' = "sbvar_alloc"
               /\ sbvartype' = PKS_SBVAR_DB
               /\ UNCHANGED lastOp
          ELSE /\ InitReturns
               /\ UNCHANGED sbvartype
  /\ UNCHANGED <<rc, pks_use_keystore, pks_keystore, pks_max_object_size, arr, nextBlk,
                 esl_data, esl_data_size, err, cursor, esl_size, next_esl, parserVars,
                 db_rc, dbx_rc, after_db, appended, failAt, oob, uaf, dfree, nrelease, freed>>

(* ---------------- read_sbvar_from_pks ---------------- *)
\* read_sbvar_from_pks returns err to grub_pks_keystore_init without passing
\* the fail label
LoadReturns(e) ==
  /\ rc' = e
  /\ pc' = IF sbvartype = PKS_SBVAR_DB THEN "init_db" ELSE "init_dbx"

\* esl_data = grub_malloc (pks_max_object_size)
ReadSbvarAlloc ==
  /\ UNCHANGED lists
  /\ pc = "sbvar_alloc"
  /\ \E ok \in (IF HasRoom THEN BOOLEAN ELSE {FALSE}) :
       IF ok
       THEN /\ esl_data' = nextBlk
            /\ tmpbufs' = tmpbufs \cup {nextBlk}
            /\ live' = live \cup {nextBlk}
            /\ nextBlk' = nextBlk + 1
            /\ pc' = "sbvar_read"
            /\ UNCHANGED <<rc, grub_errno, failAt>>
       ELSE /\ grub_errno' = "GRUB_ERR_OUT_OF_MEMORY"
            /\ failAt' = "buffer"
            /\ LoadReturns("GRUB_ERR_OUT_OF_MEMORY")
            /\ UNCHANGED <<esl_data, live, nextBlk, tmpbufs>>
  /\ UNCHANGED <<pks_use_keystore, pks_keystore, pks_max_object_size, arr, probeVars,
                 sbvartype, esl_data_size, err, cursor, esl_size, next_esl, parserVars,
                 fwlog, db_rc, dbx_rc, after_db, appended, oob, uaf, dfree, lastOp,
                 nrelease, freed>>

\* the error read_sbvar_from_pks makes of the firmware's result code
FirmwareError_NegativeFirst(r) ==
  IF r < 0 THEN "GRUB_ERR_READ_ERROR"
  ELSE IF r = IEEE1275_CELL_NOT_FOUND THEN "GRUB_ERR_FILE_NOT_FOUND"
  ELSE "GRUB_ERR_NONE"
FirmwareError(r) ==
  IF r = IEEE1275_CELL_NOT_FOUND THEN "GRUB_ERR_FILE_NOT_FOUND"
  ELSE IF r < 0 THEN "GRUB_ERR_READ_ERROR"
  ELSE "GRUB_ERR_NONE"

\* rc = grub_ieee1275_pks_read_sbvar (...) and the classification of its result
ReadSbvar ==
  /\ UNCHANGED logVars
  /\ pc = "sbvar_read"
  /\ \E r \in SbvarResults, size \in SizesOf(sbvartype) :
       /\ ULe(size, pks_max_object_size)
       /\ fwlog' = Append(fwlog, FwCall("read_sbvar", sbvartype, r, size, 0))
       /\ IF FirmwareError(r) # "GRUB_ERR_NONE"
          THEN /\ err' = FirmwareError(r)
               /\ grub_errno' = FirmwareError(r)
               /\ pc' = "sbvar_fail"
               /\ UNCHANGED <<esl_data_size, cursor, esl_size, next_esl>>
          ELSE IF UGt(size, 0)
          THEN \* pks_sd_from_esl is entered: next_esl = esl_size
               /\ esl_data_size' = size
               /\ cursor' = 0
               /\ esl_size' = size
               /\ next_esl' = size
               /\ pc' = "esl_to_esd"
               /\ UNCHANGED <<err, grub_errno>>
          ELSE /\ esl_data_size' = size
               /\ err' = "GRUB_ERR_BAD_NUMBER"
               /\ pc' = "sbvar_fail"
               /\ UNCHANGED <<grub_errno, cursor, esl_size, next_esl>>
  /\ UNCHANGED <<rc, pks_use_keystore, pks_keystore, pks_max_object_size, heapVars,
                 probeVars, sbvartype, esl_data, parserVars,
                 db_rc, dbx_rc, after_db, appended, failAt, oob, uaf, dfree, lastOp,
                 nrelease, freed>>

\* fail: grub_free (esl_data); return err
ReadSbvarFail ==
  /\ lists' = << >>
  /\ UNCHANGED tmpbufs
  /\ pc = "sbvar_fail"
  /\ live' = live \ {esl_data}
  /\ LoadReturns(err)
  /\ esl_data' = NULL
  /\ esl_data_size' = 0
  /\ err' = "GRUB_ERR_NONE"
  /\ cursor' = 0 /\ esl_size' = 0 /\ next_esl' = 0
  /\ signature' = NULL /\ entries' = 0 /\ remaining' = 0 /\ offset' = 0
  /\ signature_size' = 0 /\ guid' = 0 /\ base' = 0
  /\ UNCHANGED <<ksVars, arr, nextBlk, probeVars, sbvartype, obsVars>>

(* ---------------- pks_sd_from_esl, esl_to_esd, _esl_to_esd ---------------- *)
\* pks_sd_from_esl leaves its loop with an error: read_sbvar_from_pks gets rc
UnpackFails(e) ==
  /\ grub_errno' = e
  /\ err' = e
  /\ pc' = "sbvar_fail"

\* _esl_to_esd returned GRUB_ERR_NONE for a list of nxt bytes: pks_sd_from_esl
\* advances and tests while (esl_size > 0)
ListDone(nxt) ==
  /\ cursor' = cursor + nxt
  /\ esl_size' = esl_size - nxt
  /\ next_esl' = esl_size - nxt
  /\ IF UGt(esl_size - nxt, 0)
     THEN pc' = "esl_to_esd" /\ UNCHANGED err
     ELSE pc' = "sbvar_fail" /\ err' = "GRUB_ERR_NONE"

\* one call of esl_to_esd: the variable, where the list starts in the buffer,
\* the bytes the caller said remain (*next_esl), the header fields it decoded
\* (zero for the fields a rejected call made no use of) and whether the list
\* was accepted
ListHeader(type, start, avail, ls, hs, es, g, ok) ==
  [type |-> type, start |-> start, avail |-> avail, list_size |-> ls,
   header_size |-> hs, entry_size |-> es, guid |-> g, accepted |-> ok]

\* esl_to_esd: the two checks that reject a list
TooShortForHeader(avail) == ULt(avail, SizeofEsl)
InvalidEslSize_NoUpper(size, avail) == ULt(size, SizeofEsl)
InvalidEslSize_NoLower(size, avail) == UGt(size, avail)
InvalidEslSize(size, avail) == ULt(size, SizeofEsl) \/ UGt(size, avail)

\* esl_to_esd decodes one list header and enters _esl_to_esd on its entry span
EslToEsd ==
  /\ UNCHANGED tmpbufs
  /\ pc = "esl_to_esd"
  /\ \E ls \in ListSizes, hs \in HeaderSizes, es \in EntrySizes, g \in Guids :
       IF TooShortForHeader(next_esl) \/ InvalidEslSize(ls, next_esl)
       THEN /\ UnpackFails("GRUB_ERR_BUG")
            /\ lists' = Append(lists,
                  IF TooShortForHeader(next_esl)
                  THEN ListHeader(sbvartype, cursor, next_esl, 0, 0, 0, 0, FALSE)
                  ELSE ListHeader(sbvartype, cursor, next_esl, ls, 0, 0, 0, FALSE))
            /\ UNCHANGED <<cursor, esl_size, next_esl, parserVars>>
       ELSE /\ lists' = Append(lists, ListHeader(sbvartype, cursor, next_esl, ls, hs, es, g, TRUE))
            /\ signature' = SdPtr(pks_keystore, sbvartype)
            /\ entries' = SdCount(pks_keystore, sbvartype)
            /\ remaining' = ls - (SizeofEsl + hs)
            /\ offset' = 0
            /\ signature_size' = es
            /\ guid' = g
            /\ base' = cursor + (SizeofEsl + hs)
            /\ IF UGt(remaining', 0)
               THEN /\ pc' = "esd_realloc"
                    /\ next_esl' = ls
                    /\ UNCHANGED <<cursor, esl_size, err>>
               ELSE ListDone(ls)
            /\ UNCHANGED grub_errno
  /\ UNCHANGED <<rc, pks_use_keystore, pks_keystore, pks_max_object_size, heapVars,
                 probeVars, sbvartype, esl_data, esl_data_size, obsVars>>

\* signature = grub_realloc (signature, (entries + 1) * sizeof (grub_pks_sd_t)):
\* it fails, or grows the block where it is, or moves it and frees the old one
EsdRealloc ==
  /\ UNCHANGED logVars
  /\ pc = "esd_realloc"
  /\ \E how \in {"fail"} \cup (IF signature # NULL THEN {"inplace"} ELSE {})
                         \cup (IF HasRoom THEN {"moved"} ELSE {}) :
       CASE how = "fail" ->
              /\ failAt' = "realloc"
              /\ UnpackFails("GRUB_ERR_OUT_OF_MEMORY")
              /\ signature' = NULL
              /\ UNCHANGED heapVars
         [] how = "inplace" ->
              /\ arr' = [arr EXCEPT ![signature] = Append(Slots(arr, signature, entries), FreshSlot)]
              /\ pc' = "esd_malloc"
              /\ UNCHANGED <<live, nextBlk, signature, failAt, grub_errno, err>>
         [] how = "moved" ->
              /\ arr' = (nextBlk :> Append(Slots(arr, signature, entries), FreshSlot)) @@ arr
              /\ live' = (live \cup {nextBlk}) \ {signature}
              /\ signature' = nextBlk
              /\ nextBlk' = nextBlk + 1
              /\ pc' = "esd_malloc"
              /\ UNCHANGED <<failAt, grub_errno, err>>
  /\ UNCHANGED <<rc, pks_use_keystore, pks_keystore, pks_max_object_size, probeVars,
                 sbvartype, esl_data, esl_data_size, cursor, esl_size, next_esl,
                 entries, remaining, offset, signature_size, guid, base,
                 fwlog, db_rc, dbx_rc, after_db, appended, oob, uaf, dfree, lastOp,
                 nrelease, freed>>

\* *pks_sd_entries = entries + 1 on the failure of the payload allocation
CountOnPayloadFailure_Written(n) == n
CountOnPayloadFailure(n) == n + 1

\* esd->signature_data of the entry at esl_data + offset, as a buffer offset
PayloadOffset_FromEntryStart(b, off) == b + off
PayloadOffset(b, off) == b + off + SizeofEsd

\* grub_memcpy reads len bytes at buffer offset from: past the bytes firmware wrote
ReadsPastData(from, len) ==
  /\ len # 0
  /\ \/ len < 0
     \/ from < 0
     \/ from + len > esl_data_size

\* signature[entries].data = grub_malloc (data_size) and the rest of the loop
\* body, up to the test while (esl_size > 0)
EsdMalloc ==
  /\ UNCHANGED logVars
  /\ pc = "esd_malloc"
  /\ \E ok \in (IF HasRoom THEN BOOLEAN ELSE {FALSE}) :
       IF ~ok
       THEN /\ arr' = [arr EXCEPT ![signature][entries + 1].data = NULL]
            /\ pks_keystore' = SetSd(pks_keystore, sbvartype, signature,
                                     CountOnPayloadFailure(entries))
            /\ failAt' = "malloc"
            /\ UnpackFails("GRUB_ERR_OUT_OF_MEMORY")
            /\ UNCHANGED <<live, nextBlk, entries, remaining, offset, cursor, esl_size,
                           next_esl, appended, oob>>
       ELSE /\ live' = live \cup {nextBlk}
            /\ nextBlk' = nextBlk + 1
            /\ arr' = [arr EXCEPT ![signature][entries + 1] =
                         Slot(guid, nextBlk, signature_size - SizeofEsd,
                              PayloadOffset(base, offset), TRUE)]
            /\ appended' = [appended EXCEPT ![sbvartype] =
                              Append(@, arr'[signature][entries + 1])]
            /\ entries' = entries + 1
            /\ remaining' = remaining - signature_size
            /\ offset' = offset + signature_size
            /\ oob' = (oob \/ ReadsPastData(PayloadOffset(base, offset),
                                            signature_size - SizeofEsd))
            /\ \E crash \in (IF ReadsPastData(PayloadOffset(base, offset),
                                              signature_size - SizeofEsd)
                             THEN BOOLEAN ELSE {FALSE}) :
                 IF crash
                 THEN /\ pc' = "fatal"
                      /\ UNCHANGED <<pks_keystore, cursor, esl_size, next_esl, err>>
                 ELSE IF UGt(remaining', 0)
                 THEN /\ pc' = "esd_realloc"
                      /\ UNCHANGED <<pks_keystore, cursor, esl_size, next_esl, err>>
                 ELSE /\ pks_keystore' = SetSd(pks_keystore, sbvartype, signature, entries')
                      /\ ListDone(next_esl)
            /\ UNCHANGED <<failAt, grub_errno>>
  /\ UNCHANGED <<rc, pks_use_keystore, pks_max_object_size, probeVars,
                 sbvartype, esl_data, esl_data_size, signature, signature_size, guid, base,
                 fwlog, db_rc, dbx_rc, after_db, uaf, dfree, lastOp, nrelease, freed>>

(* ---------------- grub_pks_keystore_init, after is_pks_present ---------------- *)
\* rc == GRUB_ERR_FILE_NOT_FOUND || rc == GRUB_ERR_BAD_NUMBER, for db and for dbx
AllowListAbsent_NotFoundOnly(e) == e = "GRUB_ERR_FILE_NOT_FOUND"
AllowListAbsent_AnyError(e) == e # "GRUB_ERR_NONE"
AllowListAbsent(e) == e \in {"GRUB_ERR_FILE_NOT_FOUND", "GRUB_ERR_BAD_NUMBER"}
DenyListAbsent_NotFoundOnly(e) == e = "GRUB_ERR_FILE_NOT_FOUND"
DenyListAbsent(e) == e \in {"GRUB_ERR_FILE_NOT_FOUND", "GRUB_ERR_BAD_NUMBER"}

\* the statements after the db read, up to the call that reads dbx
InitAfterDb ==
  /\ UNCHANGED logVars
  /\ pc = "init_db"
  /\ db_rc' = rc
  /\ pks_keystore' = IF AllowListAbsent(rc)
                     THEN [pks_keystore EXCEPT !.use_static_keys = TRUE]
                     ELSE pks_keystore
  /\ after_db' = pks_keystore'
  /\ IF AllowListAbsent(rc) \/ rc = "GRUB_ERR_NONE"
     THEN /\ rc' = "GRUB_ERR_NONE"
          /\ sbvartype' = PKS_SBVAR_DBX
          /\ pc' = "sbvar_alloc"
     ELSE /\ pc' = "init_end"
          /\ UNCHANGED <<rc, sbvartype>>
  /\ UNCHANGED <<pks_use_keystore, pks_max_object_size, grub_errno, heapVars, probeVars,
                 esl_data, esl_data_size, err, cursor, esl_size, next_esl, parserVars,
                 fwlog, dbx_rc, appended, failAt, oob, uaf, dfree, lastOp, nrelease, freed>>

\* the statements after the dbx read
InitAfterDbx ==
  /\ UNCHANGED logVars
  /\ pc = "init_dbx"
  /\ dbx_rc' = rc
  /\ rc' = IF DenyListAbsent(rc) THEN "GRUB_ERR_NONE" ELSE rc
  /\ pc' = "init_end"
  /\ UNCHANGED <<ksVars, heapVars, probeVars, loaderVars, parserVars,
                 fwlog, db_rc, after_db, appended, failAt, oob, uaf, dfree, lastOp,
                 nrelease, freed>>

\* if (rc != GRUB_ERR_NONE) grub_pks_tmp_free (); pks_use_keystore = true
InitEnd ==
  /\ UNCHANGED logVars
  /\ pc = "init_end"
  /\ IF rc # "GRUB_ERR_NONE"
     THEN /\ TmpFreeEffect
          /\ \E crash \in (IF TmpFreeUndefined THEN BOOLEAN ELSE {FALSE}) :
               IF crash
               THEN pc' = "fatal" /\ UNCHANGED <<lastOp, pks_use_keystore>>
               ELSE InitReturns /\ pks_use_keystore' = TRUE
     ELSE /\ InitReturns
          /\ pks_use_keystore' = TRUE
          /\ UNCHANGED <<pks_keystore, live, uaf, dfree, freed>>
  /\ UNCHANGED <<rc, pks_max_object_size, grub_errno, arr, nextBlk, probeVars,
                 loaderVars, parserVars,
                 fwlog, db_rc, dbx_rc, after_db, appended, failAt, oob, nrelease>>

Next ==
  \/ GrubPksKeystoreInit
  \/ ProbeTest
  \/ ProbeMaxObjectSize
  \/ ReadSbversionAlloc
  \/ ReadSbversion
  \/ ReadSbvarAlloc
  \/ ReadSbvar
  \/ ReadSbvarFail
  \/ EslToEsd
  \/ EsdRealloc
  \/ EsdMalloc
  \/ InitAfterDb
  \/ InitAfterDbx
  \/ InitEnd
  \/ GrubPksTmpFree

Spec == Init /\ [][Next]_vars

(* ---------------- what the firmware answered ---------------- *)
\* grub_pks_keystore_init has returned and nothing was called since
InitReturned == pc = "done" /\ lastOp = "init"

FwAnswers(name, arg) ==
  { fwlog[i] : i \in { j \in 1..Len(fwlog) : fwlog[j].call = name /\ fwlog[j].arg = arg } }

\* every probe step succeeded and SB_VERSION is the single byte 1
FwDynamic ==
  /\ \E c \in FwAnswers("test", 0) : c.rc >= 0
  /\ \E c \in FwAnswers("max_object_size", 0) : c.rc >= 0
  /\ \E c \in FwAnswers("read_object", 0) : c.rc >= 0 /\ c.len = 1 /\ c.byte = 1

\* firmware reported the variable as not found, or as found with no bytes
FwAbsent(type) ==
  \E c \in FwAnswers("read_sbvar", type) :
     c.rc = IEEE1275_CELL_NOT_FOUND \/ (c.rc >= 0 /\ c.len = 0)

\* a load ended with an error other than not-found/empty
LoadError(e) ==
  e \in {"GRUB_ERR_OUT_OF_MEMORY", "GRUB_ERR_READ_ERROR", "GRUB_ERR_BUG"}

Released(ks) ==
  /\ ks.db = NULL /\ ks.dbx = NULL
  /\ ks.db_entries = 0 /\ ks.dbx_entries = 0

(* ---------------- C1 ---------------- *)
\* C1: when the mode probe returned true and the allow-list or the deny-list
\* load ended with an error other than not-found/empty, then after
\* grub_pks_keystore_init returns the keystore is disabled
\* (grub_pks_get_keystore gives the no-keystore indicator) and db and dbx are
\* empty with both counts 0.
C1_DisabledAfterLoadError ==
  (InitReturned /\ present /\ (LoadError(db_rc) \/ LoadError(dbx_rc)))
    => /\ pks_use_keystore = FALSE
       /\ grub_pks_get_keystore = NoKeystore
       /\ Released(pks_keystore)

(* ---------------- C2 ---------------- *)
\* C2: in every state after grub_pks_keystore_init has returned, an enabled
\* keystore whose allow-list is empty has use_static_keys set.
C2_EmptyAllowListFallsBack ==
  (pc = "done" /\ pks_use_keystore /\ pks_keystore.db_entries = 0)
    => pks_keystore.use_static_keys

(* ---------------- C3 ---------------- *)
\* C3: probe succeeded with version 1, the allow-list read was not-found or
\* zero-length and the deny-list load did not fail: after init the keystore is
\* enabled, use_static_keys is set, the allow-list is empty and dbx holds
\* exactly the entries unpacked from the deny-list variable (none if absent).
C3_AbsentAllowList ==
  (InitReturned /\ FwDynamic /\ FwAbsent(PKS_SBVAR_DB) /\ ~LoadError(dbx_rc))
    => /\ pks_use_keystore
       /\ pks_keystore.use_static_keys
       /\ pks_keystore.db_entries = 0 /\ pks_keystore.db = NULL
       /\ pks_keystore.dbx_entries = Len(appended[PKS_SBVAR_DBX])
       /\ Slots(arr, pks_keystore.dbx, pks_keystore.dbx_entries) = appended[PKS_SBVAR_DBX]
       /\ (FwAbsent(PKS_SBVAR_DBX) => pks_keystore.dbx_entries = 0)
       /\ dbx_rc # "none"

C3_Witness ==
  /\ InitReturned /\ FwDynamic /\ FwAbsent(PKS_SBVAR_DB)
  /\ dbx_rc = "GRUB_ERR_NONE"
  /\ pks_keystore.dbx_entries >= 1
  /\ pks_keystore.use_static_keys

(* ---------------- C4 ---------------- *)
\* C4: when the mode probe returns false (a probe step failed, the version is
\* malformed or is 0), then after init the keystore still has its initial
\* value, it is disabled and grub_pks_get_keystore gives the no-keystore
\* indicator; grub_pks_get_keystore gives a reference only when enabled.
C4_ProbeFalseLeavesKeystore ==
  /\ (InitReturned /\ ~FwDynamic)
       => /\ pks_keystore = EmptyKeystore
          /\ pks_use_keystore = FALSE
          /\ grub_pks_get_keystore = NoKeystore
          /\ live = {}
  /\ (grub_pks_get_keystore # NoKeystore => pks_use_keystore = TRUE)

C4_Witness ==
  /\ InitReturned
  /\ \E c \in FwAnswers("read_object", 0) : c.rc >= 0 /\ c.len = 1 /\ c.byte = 0
  /\ grub_pks_get_keystore = NoKeystore

(* ---------------- C5 ---------------- *)
\* C5: a not-found or zero-length deny-list changes nothing: after init the
\* keystore is enabled, dbx is empty with count 0, and db, db_entries and
\* use_static_keys are what they were when the allow-list step finished.
C5_AbsentDenyListAbsorbed ==
  (InitReturned /\ FwAbsent(PKS_SBVAR_DBX))
    => /\ pks_use_keystore
       /\ pks_keystore.dbx = NULL /\ pks_keystore.dbx_entries = 0
       /\ pks_keystore.db = after_db.db
       /\ pks_keystore.db_entries = after_db.db_entries
       /\ pks_keystore.use_static_keys = after_db.use_static_keys
       /\ Slots(arr, pks_keystore.db, pks_keystore.db_entries) = appended[PKS_SBVAR_DB]

C5_Witness ==
  /\ InitReturned /\ FwAbsent(PKS_SBVAR_DBX)
  /\ \E c \in FwAnswers("read_sbvar", PKS_SBVAR_DBX) : c.rc >= 0 /\ c.len = 0
  /\ pks_keystore.db_entries >= 1
  /\ ~pks_keystore.use_static_keys

(* ---------------- C6 ---------------- *)
\* C6: is_pks_present returns true exactly when the capability probe, the
\* max-object-size query and the version read succeed and the version is the
\* single byte 1; a version byte of 2 or more or a length other than 1 gives
\* false with the malformed-version error recorded, byte 0 gives false.
C6_ModeProbe ==
  probed =>
    /\ present <=> FwDynamic
    /\ \A c \in FwAnswers("read_object", 0) :
         /\ (c.rc >= 0 /\ (c.len # 1 \/ c.byte >= 2))
              => (~present /\ grub_errno = "GRUB_ERR_BAD_NUMBER")
         /\ (c.rc >= 0 /\ c.len = 1 /\ c.byte = 0) => ~present
         /\ c.rc < 0 => ~present

C6_Witness ==
  /\ probed /\ present
  /\ \E c \in FwAnswers("read_object", 0) : c.rc >= 0 /\ c.len = 1 /\ c.byte = 1

(* ---------------- C7 ---------------- *)
\* _esl_to_esd has just returned out-of-memory from the payload allocation
PayloadAllocFailed == pc = "sbvar_fail" /\ failAt = "malloc"

C8_NoLeakNoDoubleFree ==
  (pc \in {"done", "fatal"} /\ failAt \in {"realloc", "malloc"})
    => /\ live = {}
       /\ ~dfree
       /\ ~uaf

(* ---------------- C9 ---------------- *)
\* C9: after grub_pks_tmp_free, in any state, db and dbx are empty, both
\* counts are 0, use_static_keys is false and the keystore is disabled, so
\* grub_pks_get_keystore gives the no-keystore indicator.
C9_ReleaseDisables ==
  (pc \in {"idle", "done"} /\ lastOp = "free")
    => /\ pks_keystore = EmptyKeystore
       /\ pks_use_keystore = FALSE
       /\ grub_pks_get_keystore = NoKeystore

(* ---------------- C10 ---------------- *)
\* C10: a grub_pks_tmp_free that directly follows another one changes nothing
\* and frees no block.
C10_ReleaseIdempotent ==
  [][(lastOp = "free" /\ nrelease' = nrelease + 1)
       => /\ pks_keystore' = pks_keystore
          /\ pks_use_keystore' = pks_use_keystore
          /\ live' = live /\ arr' = arr
          /\ freed' = {}
          /\ dfree' = dfree /\ uaf' = uaf
          /\ pc' = pc]_vars

\* two releases after an initialization that had loaded allow-list entries:
\* the first freed them, the second found nothing to free
C10_Witness ==
  /\ pc = "done" /\ lastOp = "free" /\ nrelease = 2
  /\ rc = "GRUB_ERR_NONE"
  /\ appended[PKS_SBVAR_DB] # << >>
  /\ live = {} /\ freed = {}

(* ---------------- C11 ---------------- *)
\* the bytes after the bare header and the announced header padding
EntryRegion(h) == h.list_size - (SizeofEsl + h.header_size)

\* a list that describes itself: the entry region is a whole number of
\* entries, each large enough for its owner GUID
WellFormedList(h) ==
  /\ h.accepted
  /\ EntryRegion(h) >= 0
  /\ EntryRegion(h) = 0 \/ (h.entry_size >= SizeofEsd /\ EntryRegion(h) % h.entry_size = 0)

EntryCount(h) == IF EntryRegion(h) = 0 THEN 0 ELSE EntryRegion(h) \div h.entry_size

\* what one list holds: per entry the list's type GUID, the payload length and
\* the place of the payload, right after the entry's owner GUID
ListEntries(h) ==
  [j \in 1..EntryCount(h) |->
     [guid |-> h.guid,
      data_size |-> h.entry_size - 16,
      src |-> h.start + 28 + h.header_size + (j - 1) * h.entry_size + 16]]

RECURSIVE ExpectedEntries(_)
ExpectedEntries(hs) ==
  IF hs = << >> THEN << >>
  ELSE ExpectedEntries(SubSeq(hs, 1, Len(hs) - 1)) \o ListEntries(hs[Len(hs)])

\* the array the load wrote to, without the payload pointers
LoadedSlots ==
  Slots(arr, SdPtr(pks_keystore, sbvartype), SdCount(pks_keystore, sbvartype))
LoadedEntries ==
  [i \in 1..Len(LoadedSlots) |->
     [guid |-> LoadedSlots[i].guid, data_size |-> LoadedSlots[i].data_size,
      src |-> LoadedSlots[i].src]]

\* the unpacker has returned success for a variable made of well-formed lists
UnpackedWellFormed ==
  /\ pc = "sbvar_fail" /\ err = "GRUB_ERR_NONE"
  /\ lists # << >>
  /\ \A i \in 1..Len(lists) : WellFormedList(lists[i])

\* C11: without allocation failure, K >= 1 concatenated well-formed lists are
\* unpacked into exactly the concatenation, in order, of each list's entries:
\* list i gives N_i entries, tagged with the list's type GUID and holding the
\* entry_size - 16 bytes after the entry's owner GUID; earlier entries stay as
\* they are and the count grows by the sum of the N_i.
C11_UnpacksConcatenation ==
  UnpackedWellFormed
    => /\ SdCount(pks_keystore, sbvartype) = Len(ExpectedEntries(lists))
       /\ Len(LoadedSlots) = SdCount(pks_keystore, sbvartype)
       /\ LoadedEntries = ExpectedEntries(lists)
       /\ \A i \in 1..Len(LoadedSlots) :
            /\ LoadedSlots[i].written
            /\ LoadedSlots[i].data # NULL /\ LoadedSlots[i].data \in live
            /\ \A k \in 1..Len(LoadedSlots) :
                 k # i => LoadedSlots[k].data # LoadedSlots[i].data
       /\ ~oob

C11_Witness ==
  /\ UnpackedWellFormed
  /\ Len(lists) = 2
  /\ EntryCount(lists[1]) >= 1 /\ EntryCount(lists[2]) >= 1
  /\ lists[1].guid # lists[2].guid
  /\ SdCount(pks_keystore, sbvartype) = 2

(* ---------------- C12 ---------------- *)
\* the header just decoded is one the unpacker must reject
MustReject(h) ==
  \/ h.avail < 28
  \/ h.list_size < 28
  \/ h.list_size > h.avail

\* C12: a list is rejected with a structural error when the remaining buffer
\* is shorter than a bare header, when list_size is smaller than a bare header
\* or when list_size exceeds the bytes said to remain; the rejected list adds
\* no entry, array and count stay as they were and no further list is decoded.
C12_RejectsMalformedList ==
  [][(pc = "esl_to_esd" /\ Len(lists') = Len(lists) + 1 /\ MustReject(lists'[Len(lists')]))
       => /\ ~lists'[Len(lists')].accepted
          /\ err' = "GRUB_ERR_BUG"
          /\ pc' = "sbvar_fail"
          /\ pks_keystore' = pks_keystore
          /\ arr' = arr /\ live' = live
          /\ appended' = appended]_vars

C12_Witness ==
  /\ pc = "sbvar_fail" /\ err = "GRUB_ERR_BUG"
  /\ Len(lists) = 2
  /\ lists[1].accepted /\ ~lists[2].accepted
  /\ lists[2].avail >= 28 /\ lists[2].list_size > lists[2].avail
  /\ SdCount(pks_keystore, sbvartype) >= 1
  /\ Slots(arr, SdPtr(pks_keystore, sbvartype), SdCount(pks_keystore, sbvartype))
       = appended[sbvartype]

(* ---------------- C13 ---------------- *)
\* C13: read_sbvar_from_pks returns pairwise distinct errors for the
\* not-found sentinel, for any other negative result and for success with
\* zero bytes, none of them the error of a structural fault found while
\* unpacking; it unpacks exactly when the call succeeded with a non-zero
\* length.
C13_LoaderClassifies ==
  pc = "sbvar_fail"
    => /\ fwlog # << >>
       /\ LET c == fwlog[Len(fwlog)]
          IN /\ c.call = "read_sbvar" /\ c.arg = sbvartype
             /\ c.rc = IEEE1275_CELL_NOT_FOUND => err = "GRUB_ERR_FILE_NOT_FOUND"
             /\ (c.rc < 0 /\ c.rc # IEEE1275_CELL_NOT_FOUND) => err = "GRUB_ERR_READ_ERROR"
             /\ (c.rc >= 0 /\ c.len = 0) => err = "GRUB_ERR_BAD_NUMBER"
             /\ (lists # << >>) <=> (c.rc >= 0 /\ c.len # 0)
             /\ (lists # << >> /\ ~lists[Len(lists)].accepted) => err = "GRUB_ERR_BUG"
             /\ err = "GRUB_ERR_BUG" => (lists # << >> /\ ~lists[Len(lists)].accepted)
             /\ err \in {"GRUB_ERR_FILE_NOT_FOUND", "GRUB_ERR_READ_ERROR", "GRUB_ERR_BAD_NUMBER"}
                  => lists = << >>

C13_Witness ==
  /\ pc = "sbvar_fail"
  /\ fwlog[Len(fwlog)].rc = IEEE1275_CELL_NOT_FOUND
  /\ err = "GRUB_ERR_FILE_NOT_FOUND"
  /\ lists = << >>

(* ---------------- C14 ---------------- *)
SbvarReads(type) ==
  { i \in 1..Len(fwlog) : fwlog[i].call = "read_sbvar" /\ fwlog[i].arg = type }

\* C14: no secure-boot-variable read is issued unless the mode probe returned
\* true; the deny-list read comes after the allow-list read and only when the
\* allow-list load ended in success, not-found or empty; after any other
\* allow-list error it is never issued.
C14_FirmwareCallOrder ==
  /\ (SbvarReads(PKS_SBVAR_DB) \cup SbvarReads(PKS_SBVAR_DBX) # {})
       => (probed /\ present /\ FwDynamic)
  /\ \A i \in SbvarReads(PKS_SBVAR_DBX) :
       /\ \E j \in SbvarReads(PKS_SBVAR_DB) : j < i
       /\ db_rc \in {"GRUB_ERR_NONE", "GRUB_ERR_FILE_NOT_FOUND", "GRUB_ERR_BAD_NUMBER"}
  /\ LoadError(db_rc) => SbvarReads(PKS_SBVAR_DBX) = {}
  /\ Cardinality(SbvarReads(PKS_SBVAR_DB)) <= 1
  /\ Cardinality(SbvarReads(PKS_SBVAR_DBX)) <= 1

C14_Witness ==
  /\ InitReturned
  /\ SbvarReads(PKS_SBVAR_DBX) # {}
  /\ db_rc = "GRUB_ERR_NONE"
  /\ pks_keystore.db_entries >= 1

(* ---------------- C15 ---------------- *)
\* the request buffers are freed once their owners have returned
RequestBuffersFreed ==
  pc \in {"sbvar_alloc", "init_db", "init_dbx", "init_end", "done"}
    => tmpbufs \cap live = {}

\* C15: every temporary request buffer is released before its owner returns,
\* on every exit path, and after init returns the only live allocations are
\* those reachable from the keystore.
C15_OnlyKeystoreBlocksLive ==
  /\ RequestBuffersFreed
  /\ InitReturned => live \subseteq ToFree(pks_keystore, arr)

(* ---------------- C16 ---------------- *)
\* C16: for every list that passes validation the entry loop counts the
\* remaining length down to exactly zero: each iteration decreases it and it
\* never wraps below zero.
C16_EntryLoopCountsDown ==
  pc \in {"esd_realloc", "esd_malloc"}
    => /\ signature_size > 0
       /\ remaining > 0
       /\ remaining >= signature_size

(* ---------------- C17 ---------------- *)
C17_Bounded ==
  /\ pc \in {"esl_to_esd", "esd_realloc", "esd_malloc"}
       => /\ esl_size > 0 /\ cursor >= 0
          /\ cursor + esl_size = esl_data_size
  /\ \A i \in 1..Len(lists) :
       /\ lists[i].accepted
            => (lists[i].list_size >= 28 /\ lists[i].list_size <= lists[i].avail)
       /\ lists[i].avail < 28 => ~lists[i].accepted
       /\ lists[i].start + lists[i].avail = esl_data_size
  /\ (pc = "sbvar_fail" /\ lists # << >> /\ err = "GRUB_ERR_NONE")
       => (esl_size = 0 /\ cursor = esl_data_size)
  /\ (pc = "sbvar_fail" /\ lists # << >> /\ lists[Len(lists)].avail < 28)
       => err = "GRUB_ERR_BUG"

C17_Advance ==
  (pc \in {"esl_to_esd", "esd_malloc"} /\ cursor' # cursor)
    => /\ cursor' - cursor >= 28
       /\ cursor' - cursor <= esl_size
       /\ esl_size' = esl_size - (cursor' - cursor)
       /\ esl_size' < esl_size /\ esl_size' >= 0
       /\ cursor' <= esl_data_size

\* C17: each decoded list consumes at least a bare header and at most the
\* bytes that remain, so the remaining count strictly decreases without
\* wrapping and the cursor stays inside the buffer; the loop ends with success
\* only at exactly zero bytes, and a tail shorter than a bare header ends it
\* with a structural error.
C17_DrivingLoopProgress == []C17_Bounded /\ [][C17_Advance]_vars

C17_Witness ==
  /\ pc = "sbvar_fail" /\ err = "GRUB_ERR_BUG"
  /\ Len(lists) = 2
  /\ lists[1].accepted
  /\ lists[2].avail > 0 /\ lists[2].avail < 28
  /\ cursor = lists[1].list_size

(* ---------------- C18 ---------------- *)
\* C18: for a list that passed validation every byte read lies in the list's
\* declared region: the entry span starts inside it, its length is computed
\* without wraparound, and no entry copy reads past its end (so none reads
\* past the bytes firmware returned).
C18_ReadsInsideList ==
  /\ pc \in {"esd_realloc", "esd_malloc"}
       => /\ remaining >= 0
          /\ base <= cursor + next_esl
          /\ \/ signature_size - 16 = 0
             \/ /\ signature_size - 16 > 0
                /\ base + offset + signature_size <= cursor + next_esl
  /\ ~oob

(* ---------------- C19 ---------------- *)
\* C19: every appended entry comes from a list whose entry size exceeds the
\* 16-byte entry header, so its data_size is entry_size - 16 without
\* wraparound and 0 < data_size < entry_size.
C19_PayloadSizePositive ==
  /\ \A t \in {PKS_SBVAR_DB, PKS_SBVAR_DBX} :
       \A i \in 1..Len(appended[t]) : appended[t][i].data_size > 0
  /\ (pc \in {"esd_realloc", "esd_malloc"} /\ offset # 0)
       => (signature_size > 16 /\ arr[signature][entries].data_size = signature_size - 16)

(* ---------------- C20 ---------------- *)
\* C20: after the single grub_pks_keystore_init on a fresh keystore has
\* returned, use_static_keys implies that the keystore is enabled and the
\* allow-list is empty; it is never set in a disabled or torn-down state.
C20_StaticKeysOnlyWhenEnabled ==
  pc = "done"
    => /\ pks_keystore.use_static_keys
            => /\ pks_use_keystore
               /\ pks_keystore.db_entries = 0 /\ pks_keystore.db = NULL
               /\ rc = "GRUB_ERR_NONE"
       /\ (~present \/ rc # "GRUB_ERR_NONE" \/ ~pks_use_keystore)
            => ~pks_keystore.use_static_keys

C20_Witness ==
  /\ InitReturned
  /\ pks_keystore.use_static_keys /\ pks_use_keystore
  /\ pks_keystore.dbx_entries >= 1

====
